---- MODULE Spec2Model ----
(***************************************************************************)
(* Model of the expense tracker (src/app.py): the flexible date parser     *)
(* parse_date_input, the add-expense flow with its duplicate check, the    *)
(* edit page, and the remove-duplicates page (scan, selection, deletion).  *)
(*                                                                         *)
(* Text is a sequence of one-character strings, so that splitting,         *)
(* stripping, int() and zero-padded formatting are computed, not assumed.  *)
(* Positions in st.session_state.expenses are 0-based as in the source;    *)
(* the record at Python position i is expenses[i + 1].                     *)
(***************************************************************************)
EXTENDS Integers, Sequences, FiniteSets, TLC

VARIABLES
    expenses,               \* st.session_state.expenses
    selected_for_deletion,  \* st.session_state.selected_for_deletion
    auth_mode,              \* st.session_state.auth_mode
    page,                   \* the page chosen in the navigation radio
    shown,                  \* the last script run: the button that started it, what it left on screen
    date_input,             \* text handed to parse_date_input
    today,                  \* datetime.now(): [year, month]
    parsed,                 \* outcome of the last parse_date_input call
    custom_categories,      \* st.session_state.custom_categories: the names (every value is 0)
    user_id,                \* st.session_state.user_id
    db                      \* the database behind DATABASE_URL: its tables

\* the account a session belongs to and the store behind it
account == <<custom_categories, user_id, db>>

vars == <<expenses, selected_for_deletion, auth_mode, page, shown, date_input, today, parsed,
          account>>

-----------------------------------------------------------------------------
(* Bounds of the model *)

\* longest collection built through the pages
MaxLen == 2
\* longest collection handed to the remove-duplicates page on its own
MaxScan == 4
\* most zeros written in front of a number in a date text
MaxPad == 2

-----------------------------------------------------------------------------
(* Text *)

DigitChars == {"0", "1", "2", "3", "4", "5", "6", "7", "8", "9"}

DigitVal(c) ==
    CASE c = "0" -> 0 [] c = "1" -> 1 [] c = "2" -> 2 [] c = "3" -> 3
      [] c = "4" -> 4 [] c = "5" -> 5 [] c = "6" -> 6 [] c = "7" -> 7
      [] c = "8" -> 8 [] c = "9" -> 9

DigitChar(n) ==
    CASE n = 0 -> "0" [] n = 1 -> "1" [] n = 2 -> "2" [] n = 3 -> "3"
      [] n = 4 -> "4" [] n = 5 -> "5" [] n = 6 -> "6" [] n = 7 -> "7"
      [] n = 8 -> "8" [] n = 9 -> "9"

\* parse_date_input returns None; no date text is empty
None == <<>>

\* str.strip(): leading and trailing blanks removed
RECURSIVE LStrip(_)
LStrip(s) == IF s # <<>> /\ Head(s) = " " THEN LStrip(Tail(s)) ELSE s

RECURSIVE RStrip(_)
RStrip(s) ==
    IF s # <<>> /\ s[Len(s)] = " " THEN RStrip(SubSeq(s, 1, Len(s) - 1)) ELSE s

Strip(s) == RStrip(LStrip(s))

\* str.isdigit(): non-empty, digits only
IsDigit(s) == s # <<>> /\ \A i \in 1..Len(s) : s[i] \in DigitChars

\* value of a digit string
RECURSIVE DigitsValue(_)
DigitsValue(s) ==
    IF s = <<>> THEN 0
    ELSE 10 * DigitsValue(SubSeq(s, 1, Len(s) - 1)) + DigitVal(s[Len(s)])

\* int(text): surrounding blanks are ignored; anything but digits raises ValueError
IntOk(s) == IsDigit(Strip(s))
IntOf(s) == DigitsValue(Strip(s))

\* str.split('-')
RECURSIVE SplitFrom(_, _)
SplitFrom(s, cur) ==
    IF s = <<>> THEN <<cur>>
    ELSE IF Head(s) = "-" THEN <<cur>> \o SplitFrom(Tail(s), <<>>)
    ELSE SplitFrom(Tail(s), Append(cur, Head(s)))

Split(s) == SplitFrom(s, <<>>)

\* decimal digits of n >= 0
RECURSIVE Decimal(_)
Decimal(n) == IF n < 10 THEN <<DigitChar(n)>> ELSE Append(Decimal(n \div 10), DigitChar(n % 10))

RECURSIVE ZeroFill(_, _)
ZeroFill(s, w) == IF Len(s) >= w THEN s ELSE ZeroFill(<<"0">> \o s, w)

\* f"{n:0wd}"
Fmt(n, w) == ZeroFill(Decimal(n), w)

\* f"{year:04d}-{month:02d}-{day:02d}"
FormatDate(y, m, d) == Fmt(y, 4) \o <<"-">> \o Fmt(m, 2) \o <<"-">> \o Fmt(d, 2)

-----------------------------------------------------------------------------
(* Calendar *)

IsLeap(y) == (y % 4 = 0 /\ y % 100 # 0) \/ y % 400 = 0

DaysInMonth(y, m) ==
    IF m \in {4, 6, 9, 11} THEN 30
    ELSE IF m = 2 THEN (IF IsLeap(y) THEN 29 ELSE 28)
    ELSE 31

\* datetime(year, month, day) does not raise ValueError
DateExists(y, m, d) ==
    /\ y \in 1..9999
    /\ m \in 1..12
    /\ d \in 1..DaysInMonth(y, m)

-----------------------------------------------------------------------------
(* parse_date_input *)

\* "If just DD": the rule applies to a digit text of at most 2 characters
DayOnlyApplies(s) == IsDigit(s) /\ Len(s) <= 2 /\ IntOf(s) \in 1..31

\* DayOnly with the range check alone, the calendar never asked
DayOnlyRangeOnly(s, now) == FormatDate(now.year, now.month, IntOf(s))

DayOnly(s, now) ==
    IF DateExists(now.year, now.month, IntOf(s))
    THEN FormatDate(now.year, now.month, IntOf(s))
    ELSE None

\* "If YYYY-MM-DD"
FourDigitYear(parts) ==
    IF IntOk(parts[1]) /\ IntOk(parts[2]) /\ IntOk(parts[3])
       /\ DateExists(IntOf(parts[1]), IntOf(parts[2]), IntOf(parts[3]))
    THEN FormatDate(IntOf(parts[1]), IntOf(parts[2]), IntOf(parts[3]))
    ELSE None

\* FullYear without the expansion of a short year
FullYearAsWritten(year) == year

\* full_year = 2000 + year if year < 100 else year
FullYear(year) == IF year < 100 THEN 2000 + year ELSE year

\* "If YY-MM-DD"
TwoDigitYear(parts) ==
    IF IntOk(parts[1]) /\ IntOk(parts[2]) /\ IntOk(parts[3])
       /\ DateExists(FullYear(IntOf(parts[1])), IntOf(parts[2]), IntOf(parts[3]))
    THEN FormatDate(FullYear(IntOf(parts[1])), IntOf(parts[2]), IntOf(parts[3]))
    ELSE None

\* MonthDay reading the text as "D-M"
MonthDayDayFirst(parts, now) ==
    IF IntOk(parts[1]) /\ IntOk(parts[2])
       /\ IntOf(parts[2]) \in 1..12 /\ IntOf(parts[1]) \in 1..31
       /\ DateExists(now.year, IntOf(parts[2]), IntOf(parts[1]))
    THEN FormatDate(now.year, IntOf(parts[2]), IntOf(parts[1]))
    ELSE None

\* MonthDay with the range checks alone, the calendar never asked
MonthDayRangeOnly(parts, now) ==
    IF IntOk(parts[1]) /\ IntOk(parts[2])
       /\ IntOf(parts[1]) \in 1..12 /\ IntOf(parts[2]) \in 1..31
    THEN FormatDate(now.year, IntOf(parts[1]), IntOf(parts[2]))
    ELSE None

\* "If MM-DD"
MonthDay(parts, now) ==
    IF IntOk(parts[1]) /\ IntOk(parts[2])
       /\ IntOf(parts[1]) \in 1..12 /\ IntOf(parts[2]) \in 1..31
       /\ DateExists(now.year, IntOf(parts[1]), IntOf(parts[2]))
    THEN FormatDate(now.year, IntOf(parts[1]), IntOf(parts[2]))
    ELSE None

\* the rules after the day-only rule, on the stripped text
SplitRules(s, now) ==
    LET parts == Split(s) IN
    IF Len(parts) = 3 /\ Len(parts[1]) = 4 THEN FourDigitYear(parts)
    ELSE IF Len(parts) = 3 /\ Len(parts[1]) <= 2 THEN TwoDigitYear(parts)
    ELSE IF Len(parts) = 2 THEN MonthDay(parts, now)
    ELSE None

parse_date_input(raw, now) ==
    IF raw = <<>> THEN None
    ELSE LET s == Strip(raw) IN
         IF DayOnlyApplies(s) THEN DayOnly(s, now) ELSE SplitRules(s, now)

\* datetime.strptime(text, "%Y-%m-%d").strftime("%Y-%m-%d"), the callers'
\* last resort: four digits, a month and a day of one or two digits, no blanks
strptime(raw) ==
    LET parts == Split(raw) IN
    IF /\ Len(parts) = 3
       /\ IsDigit(parts[1]) /\ Len(parts[1]) = 4
       /\ IsDigit(parts[2]) /\ Len(parts[2]) <= 2
       /\ IsDigit(parts[3]) /\ Len(parts[3]) <= 2
       /\ DateExists(DigitsValue(parts[1]), DigitsValue(parts[2]), DigitsValue(parts[3]))
    THEN FormatDate(DigitsValue(parts[1]), DigitsValue(parts[2]), DigitsValue(parts[3]))
    ELSE None

\* parse_date_input, then strptime when it returned None
ParseOrFallback(raw, now) ==
    LET parsed_date == parse_date_input(raw, now) IN
    IF parsed_date # None THEN parsed_date ELSE strptime(raw)

-----------------------------------------------------------------------------
(* Session state and what the user can enter *)

\* categories = {"groceries": 0, "transportation": 0, "entertainment": 0, "utilities": 0}
categories == {"groceries", "transportation", "entertainment", "utilities"}

\* get_all_categories(): {**categories, **st.session_state.custom_categories}
get_all_categories == categories \cup custom_categories

\* the categories the user picks in the select boxes
CategoryChoices == {"groceries", "utilities"}

\* amounts in hundredths; the add form has min_value=0.01, the edit form min_value=0.0
AddAmounts == {1}
EditAmounts == {0, 1}

\* the description typed during a session
SessionDescriptions == {"milk"}

\* amounts and descriptions typed when the add page is taken on its own
Amounts == {1, 2}
Descriptions == {"milk", "bread"}

\* date texts typed into the forms: two that parse, one that does not, and none
FormDates == {<<"4">>, <<"2", "4", "-", "1", "-", "2", "9">>, <<"2", "-", "3", "0">>, <<>>}

\* the clock while the pages are used
AppToday == [year |-> 2024, month |-> 1]

\* a parser that accepts no text
FormParseNothing == [now \in {AppToday} |-> [t \in FormDates |-> None]]

\* what the forms' date texts parse to, computed once
FormParse == [now \in {AppToday} |-> [t \in FormDates |-> ParseOrFallback(t, now)]]

NotParsed == [done |-> FALSE, value |-> None]

NoExpense == [date |-> None, category |-> "", amount |-> 0, description |-> ""]

\* a script run that leaves nothing but the page on the screen
Idle(button) ==
    [clicked |-> button, pending |-> FALSE, expense |-> NoExpense,
     duplicates |-> <<>>, count |-> 0, error |-> ""]

\* a script run that ended in st.error or in an exception
Failed(button, what) == [Idle(button) EXCEPT !.error = what]

\* the pages drawn whenever a mode has been chosen
InAppOnceChosen == auth_mode # "none"

\* the main pages are drawn only for a guest or an authenticated user
InApp == auth_mode \in {"guest", "authenticated"}

-----------------------------------------------------------------------------
(* Category names *)

\* str.lower(), on the letters the names of this model are typed with
LowerChar(c) == CASE c = "F" -> "f" [] c = "G" -> "g" [] c = "P" -> "p" [] OTHER -> c

Lower(s) == [i \in 1..Len(s) |-> LowerChar(s[i])]

\* new_cat.strip().lower()
NormalizeName(typed) == Lower(Strip(typed))

\* the texts typed into the "Category Name" and "New name" inputs
TypedNames ==
    {<<"f", "o", "o", "d">>, <<" ", "F", "o", "o", "d">>, <<"p", "e", "t", "s">>,
     <<"G", "r", "o", "c", "e", "r", "i", "e", "s">>, <<>>}

\* a category name is kept as a string; the text of a name, once normalized
Name(text) ==
    CASE text = <<"f", "o", "o", "d">> -> "food"
      [] text = <<"p", "e", "t", "s">> -> "pets"
      [] text = <<"g", "r", "o", "c", "e", "r", "i", "e", "s">> -> "groceries"
      [] text = <<>> -> ""

-----------------------------------------------------------------------------
(* The store: the tables of init_db *)

\* st.session_state.user_id = None
NoUser == 0

\* DATABASE_URL is not set: get_engine() returns None
NoDb == [engine |-> FALSE, users |-> <<>>, expenses |-> <<>>, custom_categories |-> {}]

\* DATABASE_URL is set and the tables are empty
FreshDb == [NoDb EXCEPT !.engine = TRUE]

\* a 'YYYY-MM-DD' text stored in the column "date DATE": the date it names
ToDate(text) ==
    <<DigitsValue(SubSeq(text, 1, 4)), DigitsValue(SubSeq(text, 6, 7)),
      DigitsValue(SubSeq(text, 9, 10))>>

\* row[3].strftime('%Y-%m-%d') on a date read from the store
strftime(d) == FormatDate(d[1], d[2], d[3])

\* INSERT INTO expenses (user_id, amount, description, category, date)
save_user_expense(store, uid, expense) ==
    IF ~store.engine THEN store
    ELSE [store EXCEPT !.expenses =
             Append(@, [user_id |-> uid, amount |-> expense.amount,
                        description |-> expense.description,
                        category |-> expense.category, date |-> ToDate(expense.date)])]

\* INSERT INTO custom_categories (user_id, name) ... ON CONFLICT (user_id, name) DO NOTHING
save_user_category(store, uid, category_name) ==
    IF ~store.engine THEN store
    ELSE [store EXCEPT !.custom_categories = @ \cup {[user_id |-> uid, name |-> category_name]}]

\* INSERT INTO custom_categories(name): the row belongs to no user
db_add_category(store, name) ==
    [store EXCEPT !.custom_categories = @ \cup {[user_id |-> NoUser, name |-> name]}]

\* dates compared as the store compares them
DateBefore(a, b) ==
    \/ a[1] < b[1]
    \/ a[1] = b[1] /\ a[2] < b[2]
    \/ a[1] = b[1] /\ a[2] = b[2] /\ a[3] < b[3]

\* the orders in which a SELECT ... ORDER BY date returns rows: rows of equal
\* dates come in any order
Orders(rows, descending) ==
    LET n == Len(rows)
        perms == {f \in [1..n -> 1..n] : \A i, j \in 1..n : f[i] = f[j] => i = j}
        sorted(f) == \A i \in 1..(n - 1) :
                        IF descending THEN ~DateBefore(rows[f[i]].date, rows[f[i + 1]].date)
                        ELSE ~DateBefore(rows[f[i + 1]].date, rows[f[i]].date)
    IN  {[i \in 1..n |-> rows[f[i]]] : f \in {g \in perms : sorted(g)}}

\* the rows of the table expenses WHERE user_id = :user_id
RowsOf(store, uid) ==
    LET Mine(r) == r.user_id = uid IN SelectSeq(store.expenses, Mine)

\* get_user_data(user_id): the expenses it can return, ORDER BY date DESC
get_user_data(store, uid) ==
    IF ~store.engine THEN {<<>>}
    ELSE {[i \in 1..Len(rows) |->
              [amount |-> rows[i].amount, description |-> rows[i].description,
               category |-> rows[i].category, date |-> strftime(rows[i].date)]] :
           rows \in Orders(RowsOf(store, uid), TRUE)}

\* get_user_data(user_id): the custom categories WHERE user_id = :user_id
UserCategories(store, uid) ==
    IF ~store.engine THEN {}
    ELSE {c.name : c \in {r \in store.custom_categories : r.user_id = uid}}

\* db_load_data(): SELECT amount, description, category, date FROM expenses
\* ORDER BY date, every row of the table, each as dict(r): the date is the
\* date object of the driver, not a text
db_load_data(store) ==
    {[i \in 1..Len(rows) |->
         [amount |-> rows[i].amount, description |-> rows[i].description,
          category |-> rows[i].category, date |-> rows[i].date]] :
      rows \in Orders(store.expenses, FALSE)}

\* db_load_data(): SELECT name FROM custom_categories
AllStoredCategories(store) == {c.name : c \in store.custom_categories}

\* create_pin_user with an engine: INSERT INTO users ... RETURNING id
create_pin_user(store, pin) ==
    [store EXCEPT !.users = Append(@, [id |-> Len(@) + 1, pin |-> pin])]

\* authenticate_pin with an engine: the users whose stored hash verifies the
\* PIN; the first the SELECT returns is taken, and the SELECT has no order
authenticate_pin(store, pin) ==
    {store.users[i].id : i \in {j \in 1..Len(store.users) : store.users[j].pin = pin}}

-----------------------------------------------------------------------------
(* Login screen *)

\* "Continue as Guest"
ContinueAsGuest ==
    /\ auth_mode = "none"
    /\ auth_mode' = "guest"
    /\ page' = "add"
    /\ user_id' = NoUser
    /\ shown' = Idle("continue_as_guest")
    /\ UNCHANGED <<expenses, selected_for_deletion, date_input, today, parsed,
                   custom_categories, db>>

\* the navigation radio: the script runs again and draws page p
Navigate(p) ==
    /\ InApp
    /\ p # page
    /\ page' = p
    /\ shown' = Idle("navigate")
    /\ UNCHANGED <<expenses, selected_for_deletion, auth_mode, date_input, today, parsed, account>>

\* "Use PIN Access" on the login screen
UsePinAccess ==
    /\ auth_mode = "none"
    /\ auth_mode' = "pin_login"
    /\ shown' = Idle("use_pin_access")
    /\ UNCHANGED <<expenses, selected_for_deletion, page, date_input, today, parsed, account>>

\* "Main Menu" on the PIN screen
MainMenu ==
    /\ auth_mode = "pin_login"
    /\ auth_mode' = "none"
    /\ shown' = Idle("main_menu")
    /\ UNCHANGED <<expenses, selected_for_deletion, page, date_input, today, parsed, account>>

\* "Back to Guest" on the PIN screen
BackToGuest ==
    /\ auth_mode = "pin_login"
    /\ auth_mode' = "guest"
    /\ user_id' = NoUser
    /\ page' = "add"
    /\ shown' = Idle("back_to_guest")
    /\ UNCHANGED <<expenses, selected_for_deletion, date_input, today, parsed,
                   custom_categories, db>>

\* the PINs typed on the PIN screen: two that pass the checks, one too short,
\* one that is not a number
Pins ==
    {<<"1", "1", "1", "1">>, <<"2", "2", "2", "2">>, <<"1", "2">>, <<"1", "2", "3", "x">>}

\* "Login" on the tab "Enter PIN", the database being there
PinLogin(pin) ==
    /\ auth_mode = "pin_login"
    /\ db.engine
    /\ IF Len(pin) < 4 THEN
           /\ shown' = Failed("pin_login", "short")
           /\ UNCHANGED <<expenses, auth_mode, page, custom_categories, user_id>>
       ELSE IF ~IsDigit(pin) THEN
           /\ shown' = Failed("pin_login", "digits")
           /\ UNCHANGED <<expenses, auth_mode, page, custom_categories, user_id>>
       ELSE IF authenticate_pin(db, pin) = {} THEN
           /\ shown' = Failed("pin_login", "invalid")
           /\ UNCHANGED <<expenses, auth_mode, page, custom_categories, user_id>>
       ELSE \E uid \in authenticate_pin(db, pin) :
           /\ auth_mode' = "authenticated"
           /\ user_id' = uid
           /\ expenses' \in get_user_data(db, uid)
           /\ custom_categories' = UserCategories(db, uid)
           /\ page' = "add"
           /\ shown' = Idle("pin_login")
    /\ UNCHANGED <<selected_for_deletion, date_input, today, parsed, db>>

\* "Create PIN" on the tab "Create New PIN", the database being there and the
\* recovery email left empty
CreatePin(new_pin, confirm_pin) ==
    /\ auth_mode = "pin_login"
    /\ db.engine
    /\ IF Len(new_pin) < 4 THEN
           /\ shown' = Failed("create_pin", "short")
           /\ UNCHANGED <<expenses, auth_mode, page, account>>
       ELSE IF ~IsDigit(new_pin) THEN
           /\ shown' = Failed("create_pin", "digits")
           /\ UNCHANGED <<expenses, auth_mode, page, account>>
       ELSE IF new_pin # confirm_pin THEN
           /\ shown' = Failed("create_pin", "match")
           /\ UNCHANGED <<expenses, auth_mode, page, account>>
       ELSE
           /\ Len(db.users) < MaxLen
           /\ db' = create_pin_user(db, new_pin)
           /\ auth_mode' = "authenticated"
           /\ user_id' = Len(db'.users)
           /\ expenses' = <<>>
           /\ custom_categories' = {}
           /\ page' = "add"
           /\ shown' = Idle("create_pin")
    /\ UNCHANGED <<selected_for_deletion, date_input, today, parsed>>

\* "Logout": the keys auth_mode, user_id, expenses and custom_categories are
\* deleted, and the script run that follows sets them anew
Logout ==
    /\ auth_mode = "authenticated"
    /\ auth_mode' = "none"
    /\ user_id' = NoUser
    /\ expenses' = <<>>
    /\ custom_categories' = {}
    /\ page' = "add"
    /\ shown' = Idle("logout")
    /\ UNCHANGED <<selected_for_deletion, date_input, today, parsed, db>>

\* "Login" in the header of a guest session
GuestLogin ==
    /\ auth_mode = "guest"
    /\ auth_mode' = "none"
    /\ shown' = Idle("guest_login")
    /\ UNCHANGED <<expenses, selected_for_deletion, page, date_input, today, parsed, account>>

\* "Create Account" on the login screen
CreateAccount ==
    /\ auth_mode = "none"
    /\ auth_mode' = "account_login"
    /\ shown' = Idle("create_account")
    /\ UNCHANGED <<expenses, selected_for_deletion, page, date_input, today, parsed, account>>

\* "Main Menu" on the account screen
AccountMainMenu ==
    /\ auth_mode = "account_login"
    /\ auth_mode' = "none"
    /\ shown' = Idle("main_menu")
    /\ UNCHANGED <<expenses, selected_for_deletion, page, date_input, today, parsed, account>>

\* "Back to Guest" on the account screen
AccountBackToGuest ==
    /\ auth_mode = "account_login"
    /\ auth_mode' = "guest"
    /\ user_id' = NoUser
    /\ page' = "add"
    /\ shown' = Idle("back_to_guest")
    /\ UNCHANGED <<expenses, selected_for_deletion, date_input, today, parsed,
                   custom_categories, db>>

\* "Login" and "Create Account" on the account screen: every branch ends in
\* st.error, account authentication not being implemented
AccountSubmit ==
    /\ auth_mode = "account_login"
    /\ shown' = Failed("account_login", "not implemented")
    /\ UNCHANGED <<expenses, selected_for_deletion, auth_mode, page, date_input, today, parsed,
                   account>>

-----------------------------------------------------------------------------
(* Manage Categories page, and the category expander of the add page *)

\* the test with the built-in names left out
CategoryExistsAmongCustom(name) == name \in custom_categories

\* "cat_name not in get_all_categories()", negated
CategoryExists(name) == name \in get_all_categories

\* "Add" under "Add Custom Category". With a database the INSERT of
\* db_add_category names the conflict target (name): it raises when the store
\* has no unique index on custom_categories(name), as with the table of
\* init_db, and inserts when it has one; then db_load_data() reloads the session
AddCategory(new_cat) ==
    /\ InApp /\ page = "categories"
    /\ LET cat_name == Name(NormalizeName(new_cat)) IN
       IF new_cat = <<>> THEN
           /\ shown' = Idle("add_new_cat")
           /\ UNCHANGED <<expenses, custom_categories, db>>
       ELSE IF CategoryExists(cat_name) THEN
           /\ shown' = Failed("add_new_cat", "exists")
           /\ UNCHANGED <<expenses, custom_categories, db>>
       ELSE IF ~db.engine THEN
           /\ custom_categories' = custom_categories \cup {cat_name}
           /\ shown' = Idle("add_new_cat")
           /\ UNCHANGED <<expenses, db>>
       ELSE
           \/ /\ shown' = Failed("add_new_cat", "ProgrammingError")
              /\ UNCHANGED <<expenses, custom_categories, db>>
           \/ /\ db' = db_add_category(db, cat_name)
              /\ expenses' \in db_load_data(db')
              /\ custom_categories' = AllStoredCategories(db')
              /\ shown' = Idle("add_new_cat")
    /\ UNCHANGED <<selected_for_deletion, auth_mode, page, date_input, today, parsed, user_id>>

\* "Add Category" in the expander of the add page
AddCategoryInline(new_category) ==
    /\ InApp /\ page = "add"
    /\ LET name == Name(NormalizeName(new_category)) IN
       IF new_category # <<>> /\ ~CategoryExists(name) THEN
           /\ custom_categories' = custom_categories \cup {name}
           /\ db' = IF auth_mode = "authenticated" /\ user_id # NoUser
                    THEN save_user_category(db, user_id, name)
                    ELSE db
           /\ shown' = Idle("add_cat_btn")
       ELSE IF CategoryExists(name) THEN
           /\ shown' = Failed("add_cat_btn", "exists")
           /\ UNCHANGED <<custom_categories, db>>
       ELSE
           /\ shown' = Idle("add_cat_btn")
           /\ UNCHANGED <<custom_categories, db>>
    /\ UNCHANGED <<expenses, selected_for_deletion, auth_mode, page, date_input, today, parsed,
                   user_id>>

\* the rename without its loop over the expenses
RecategorizeNone(exps, selected, new_name_lower) == exps

\* "for expense in st.session_state.expenses: if expense['category'] == selected: ..."
Recategorize(exps, selected, new_name_lower) ==
    [i \in 1..Len(exps) |->
        IF exps[i].category = selected
        THEN [exps[i] EXCEPT !.category = new_name_lower]
        ELSE exps[i]]

\* "Update" under "Edit Custom Category"
UpdateCategory(selected, new_name) ==
    /\ InApp /\ page = "categories"
    /\ selected \in custom_categories
    /\ LET new_name_lower == Name(NormalizeName(new_name)) IN
       IF new_name = <<>> THEN
           /\ shown' = Idle("update_cat")
           /\ UNCHANGED <<expenses, custom_categories>>
       ELSE IF CategoryExists(new_name_lower) THEN
           /\ shown' = Failed("update_cat", "exists")
           /\ UNCHANGED <<expenses, custom_categories>>
       ELSE
           /\ custom_categories' = (custom_categories \ {selected}) \cup {new_name_lower}
           /\ expenses' = Recategorize(expenses, selected, new_name_lower)
           /\ shown' = Idle("update_cat")
    /\ UNCHANGED <<selected_for_deletion, auth_mode, page, date_input, today, parsed,
                   user_id, db>>

\* "Remove" under "Remove Custom Category"
RemoveCategory(selected) ==
    /\ InApp /\ page = "categories"
    /\ selected \in custom_categories
    /\ custom_categories' = custom_categories \ {selected}
    /\ shown' = Idle("remove_btn")
    /\ UNCHANGED <<expenses, selected_for_deletion, auth_mode, page, date_input, today, parsed,
                   user_id, db>>

-----------------------------------------------------------------------------
(* Add Expense page *)

\* the duplicate test of add_expense, with the description compared as well
IsDuplicateWithDescription(e, expense) ==
    /\ e.date = expense.date
    /\ e.category = expense.category
    /\ e.amount = expense.amount
    /\ e.description = expense.description

\* e['date'] == parsed_date and e['category'] == category and e['amount'] == amount
IsDuplicateOf(e, expense) ==
    /\ e.date = expense.date
    /\ e.category = expense.category
    /\ e.amount = expense.amount

\* duplicates = [e for e in st.session_state.expenses if ...]
DuplicatesOf(expense, exps) ==
    LET Matches(e) == IsDuplicateOf(e, expense) IN SelectSeq(exps, Matches)

\* the duplicate check with the append done before the user is asked
AfterCheckAppendFirst(expense, exps) ==
    LET duplicates == DuplicatesOf(expense, exps) IN
    [expenses |-> Append(exps, expense),
     shown |-> [Idle("add_expense") EXCEPT !.pending = (duplicates # <<>>),
                                           !.expense = expense,
                                           !.duplicates = duplicates]]

\* "if st.session_state.auth_mode == 'authenticated' and st.session_state.user_id:
\*      save_user_expense(...) else: save_data()", save_data doing nothing
SaveAdded(expense) ==
    IF auth_mode = "authenticated" /\ user_id # NoUser
    THEN save_user_expense(db, user_id, expense)
    ELSE db

\* "if duplicates: ... else: st.session_state.expenses.append(expense)"
AfterCheck(expense, exps) ==
    LET duplicates == DuplicatesOf(expense, exps) IN
    IF duplicates # <<>>
    THEN [expenses |-> exps,
          shown |-> [Idle("add_expense") EXCEPT !.pending = TRUE, !.expense = expense,
                                                !.duplicates = duplicates]]
    ELSE [expenses |-> Append(exps, expense),
          shown |-> [Idle("add_expense") EXCEPT !.expense = expense]]

\* the "Add Expense" button, with the values of the form
AddExpense(category, amount, description, text) ==
    /\ InApp /\ page = "add"
    /\ category \in get_all_categories
    /\ LET parsed_date == FormParse[today][text]
           expense == [amount |-> amount, description |-> description,
                       category |-> category, date |-> parsed_date]
           after == AfterCheck(expense, expenses)
       IN  IF amount <= 0 THEN
               /\ shown' = Failed("add_expense", "amount")
               /\ UNCHANGED <<expenses, db>>
           ELSE IF text = <<>> THEN
               /\ shown' = Failed("add_expense", "no date")
               /\ UNCHANGED <<expenses, db>>
           ELSE IF parsed_date = None THEN
               /\ shown' = Failed("add_expense", "date")
               /\ UNCHANGED <<expenses, db>>
           ELSE
               /\ Len(after.expenses) <= MaxLen
               /\ expenses' = after.expenses
               /\ shown' = after.shown
               /\ db' = IF after.shown.pending THEN db ELSE SaveAdded(expense)
               /\ Len(db'.expenses) <= MaxLen
    /\ UNCHANGED <<selected_for_deletion, auth_mode, page, date_input, today, parsed,
                   custom_categories, user_id>>

\* "Add Anyway" is drawn inside "if st.button('Add Expense')": its click starts
\* a script run in which st.button('Add Expense') is False, so the block that
\* holds the append is not executed
AddAnyway ==
    /\ InApp /\ page = "add"
    /\ shown.pending
    /\ shown' = Idle("add_anyway")
    /\ UNCHANGED <<expenses, selected_for_deletion, auth_mode, page, date_input, today, parsed, account>>

\* "Cancel" beside it: the same script run, nothing is added
CancelAdd ==
    /\ InApp /\ page = "add"
    /\ shown.pending
    /\ shown' = Idle("cancel_add")
    /\ UNCHANGED <<expenses, selected_for_deletion, auth_mode, page, date_input, today, parsed, account>>

-----------------------------------------------------------------------------
(* Edit Expenses page *)

\* pop of the position after i
PopNext(list, i) == SubSeq(list, 1, i + 1) \o SubSeq(list, i + 3, Len(list))

\* list.pop(i), i a position from 0
Pop(list, i) == SubSeq(list, 1, i) \o SubSeq(list, i + 2, Len(list))

\* "Save Changes" for the record at expense_index
SaveChanges(expense_index, category, amount, description, text) ==
    /\ InApp /\ page = "edit"
    /\ expense_index \in 0..(Len(expenses) - 1)
    /\ category \in get_all_categories
    /\ LET parsed_date == FormParse[today][text]
           updated_expense == [amount |-> amount, description |-> description,
                               category |-> category, date |-> parsed_date]
       IN  IF parsed_date = None THEN
               /\ shown' = Failed("save_changes", "date")
               /\ UNCHANGED expenses
           ELSE
               /\ expenses' = [expenses EXCEPT ![expense_index + 1] = updated_expense]
               /\ shown' = Idle("save_changes")
    /\ UNCHANGED <<selected_for_deletion, auth_mode, page, date_input, today, parsed, account>>

\* "Delete Expense" for the record at expense_index
DeleteExpense(expense_index) ==
    /\ InApp /\ page = "edit"
    /\ expense_index \in 0..(Len(expenses) - 1)
    /\ expenses' = Pop(expenses, expense_index)
    /\ shown' = Idle("delete_expense")
    /\ UNCHANGED <<selected_for_deletion, auth_mode, page, date_input, today, parsed, account>>

-----------------------------------------------------------------------------
(* Remove Duplicates page *)

\* the key with the description in it
KeyOfWithDescription(expense) ==
    <<expense.date, expense.category, expense.amount, expense.description>>

\* key = (expense['date'], expense['category'], expense['amount'])
KeyOf(expense) == <<expense.date, expense.category, expense.amount>>

\* enumerate() counting from 1
EnumerateFromOne(pos) == pos

\* enumerate(st.session_state.expenses): the index of the record at expenses[pos]
EnumerateIndex(pos) == pos - 1

\* duplicate_groups[key].append((i, expense)), a new list for a new key;
\* the dict keeps its keys in the order they were first inserted
AddToGroups(groups, key, item) ==
    IF \E g \in 1..Len(groups) : groups[g].key = key
    THEN [g \in 1..Len(groups) |->
             IF groups[g].key = key
             THEN [groups[g] EXCEPT !.members = Append(@, item)]
             ELSE groups[g]]
    ELSE Append(groups, [key |-> key, members |-> <<item>>])

RECURSIVE GroupFrom(_, _, _)
GroupFrom(exps, pos, groups) ==
    IF pos > Len(exps) THEN groups
    ELSE GroupFrom(exps, pos + 1,
                   AddToGroups(groups, KeyOf(exps[pos]), <<EnumerateIndex(pos), exps[pos]>>))

\* the loop "for i, expense in enumerate(st.session_state.expenses)"
duplicate_groups(exps) == GroupFrom(exps, 1, <<>>)

\* a filter that keeps every group
KeepsAnyGroup(group) == Len(group.members) >= 1

\* len(v) > 1
IsDuplicateGroup(group) == Len(group.members) > 1

\* actual_duplicates = {k: v for k, v in duplicate_groups.items() if len(v) > 1}
actual_duplicates(exps) == SelectSeq(duplicate_groups(exps), IsDuplicateGroup)

\* the original indices of the members of the groups
MemberIndices(groups) ==
    UNION {{groups[g].members[k][1] : k \in 1..Len(groups[g].members)} :
              g \in 1..Len(groups)}

\* the indices that have a checkbox on the page
DisplayedIndices(exps) == MemberIndices(actual_duplicates(exps))

\* the page draws its checkboxes and buttons: "if actual_duplicates:", groups
\* being the actual_duplicates of this script run
DuplicatesShown(groups) == InApp /\ page = "dups" /\ expenses # <<>> /\ groups # <<>>

\* a checkbox delete_<original_idx> is ticked or unticked
ToggleCheckbox(groups, original_idx) ==
    /\ DuplicatesShown(groups)
    /\ original_idx \in MemberIndices(groups)
    /\ selected_for_deletion' =
           IF original_idx \in selected_for_deletion
           THEN selected_for_deletion \ {original_idx}
           ELSE selected_for_deletion \cup {original_idx}
    /\ shown' = Idle("checkbox")
    /\ UNCHANGED <<expenses, auth_mode, page, date_input, today, parsed, account>>

\* the loop keeping the last member of each group instead of the first
AllButLast(groups) ==
    UNION {{groups[g].members[k][1] : k \in 1..(Len(groups[g].members) - 1)} :
              g \in 1..Len(groups)}

\* "for i, (original_idx, _) in enumerate(group): if i > 0: ...add(original_idx)"
AllButFirst(groups) ==
    UNION {{groups[g].members[k][1] : k \in 2..Len(groups[g].members)} :
              g \in 1..Len(groups)}

\* "Select All Duplicates"
SelectAllDuplicates(groups) ==
    /\ DuplicatesShown(groups)
    /\ selected_for_deletion' = selected_for_deletion \cup AllButFirst(groups)
    /\ shown' = Idle("select_all")
    /\ UNCHANGED <<expenses, auth_mode, page, date_input, today, parsed, account>>

\* "Clear Selection"
ClearSelection(groups) ==
    /\ DuplicatesShown(groups)
    /\ selected_for_deletion' = {}
    /\ shown' = Idle("clear_selection")
    /\ UNCHANGED <<expenses, auth_mode, page, date_input, today, parsed, account>>

SetMax(S) == CHOOSE x \in S : \A y \in S : y <= x
SetMin(S) == CHOOSE x \in S : \A y \in S : x <= y

\* sorted(indices), lowest first
RECURSIVE SortedAscending(_)
SortedAscending(S) ==
    IF S = {} THEN <<>> ELSE <<SetMin(S)>> \o SortedAscending(S \ {SetMin(S)})

\* sorted(st.session_state.selected_for_deletion, reverse=True)
RECURSIVE SortedDescending(_)
SortedDescending(S) ==
    IF S = {} THEN <<>> ELSE <<SetMax(S)>> \o SortedDescending(S \ {SetMax(S)})

\* the loop with an index past the end passed over
RECURSIVE PopEachSkipping(_, _)
PopEachSkipping(list, indices) ==
    IF indices = <<>> THEN [list |-> list, raised |-> FALSE]
    ELSE IF Head(indices) >= Len(list) THEN PopEachSkipping(list, Tail(indices))
    ELSE PopEachSkipping(Pop(list, Head(indices)), Tail(indices))

\* "for idx in indices_to_remove: expenses.pop(idx)": pop raises IndexError on
\* an index past the end, and the list keeps what was popped before
RECURSIVE PopEach(_, _)
PopEach(list, indices) ==
    IF indices = <<>> THEN [list |-> list, raised |-> FALSE]
    ELSE IF Head(indices) >= Len(list) THEN [list |-> list, raised |-> TRUE]
    ELSE PopEach(Pop(list, Head(indices)), Tail(indices))

\* "Delete Selected (n)", drawn when selected_count > 0
DeleteSelected(groups) ==
    /\ DuplicatesShown(groups)
    /\ Cardinality(selected_for_deletion) > 0
    /\ LET popped == PopEach(expenses, SortedDescending(selected_for_deletion)) IN
       /\ expenses' = popped.list
       /\ IF popped.raised
          THEN /\ shown' = Failed("delete_selected", "IndexError")
               /\ UNCHANGED selected_for_deletion
          ELSE /\ shown' = [Idle("delete_selected") EXCEPT
                               !.count = Cardinality(selected_for_deletion)]
               /\ selected_for_deletion' = {}
    /\ UNCHANGED <<auth_mode, page, date_input, today, parsed, account>>

-----------------------------------------------------------------------------
(* The session: login screen, then the three pages *)

Pages == {"add", "edit", "dups"}

Init ==
    /\ expenses = <<>>
    /\ selected_for_deletion = {}
    /\ auth_mode = "none"
    /\ page = "add"
    /\ shown = Idle("none")
    /\ date_input = <<>>
    /\ today = AppToday
    /\ parsed = NotParsed
    /\ custom_categories = {}
    /\ user_id = NoUser
    /\ db = NoDb

\* every script run of the remove-duplicates page scans the collection first
Next ==
    LET groups == actual_duplicates(expenses) IN
    \/ ContinueAsGuest
    \/ \E p \in Pages : Navigate(p)
    \/ \E c \in CategoryChoices, a \in AddAmounts, d \in SessionDescriptions, t \in FormDates :
          AddExpense(c, a, d, t)
    \/ AddAnyway
    \/ CancelAdd
    \/ \E i \in 0..(Len(expenses) - 1), c \in CategoryChoices, a \in EditAmounts,
          d \in SessionDescriptions, t \in FormDates : SaveChanges(i, c, a, d, t)
    \/ \E i \in 0..(Len(expenses) - 1) : DeleteExpense(i)
    \/ \E i \in 0..(Len(expenses) - 1) : ToggleCheckbox(groups, i)
    \/ SelectAllDuplicates(groups)
    \/ ClearSelection(groups)
    \/ DeleteSelected(groups)

Spec == Init /\ [][Next]_vars

-----------------------------------------------------------------------------
(* Date texts the parser is applied to *)

\* numbers written in the parts of a date text
Nums == {0, 1, 2, 4, 13, 24, 29, 30, 31, 32, 150, 1900, 2024}

RECURSIVE Zeros(_)
Zeros(p) == IF p = 0 THEN <<>> ELSE <<"0">> \o Zeros(p - 1)

\* a part: a number with up to MaxPad zeros in front, or no number at all
PartTexts ==
    {Zeros(p) \o Decimal(n) : n \in Nums, p \in 0..MaxPad}
        \cup {<<>>, <<"a", "b">>, <<" ", "1">>}

RECURSIVE Join(_)
Join(parts) ==
    IF Len(parts) = 1 THEN parts[1]
    ELSE parts[1] \o <<"-">> \o Join(Tail(parts))

\* one, two or three parts, and a few texts of four parts
DateTexts ==
    {Join(ps) : ps \in UNION {[1..k -> PartTexts] : k \in 1..3}}
        \cup {Join(<<a, b, c, c>>) : a \in {<<"2", "0", "2", "4">>, <<"2", "4">>},
                                     b \in {<<"1">>}, c \in {<<"1">>, <<"0", "2">>}}

\* readings of the clock: a leap February, a common February, a 30-day and a 31-day month
RefDates ==
    {[year |-> 2024, month |-> 2], [year |-> 2023, month |-> 2],
     [year |-> 2023, month |-> 4], [year |-> 2024, month |-> 1]}

-----------------------------------------------------------------------------
(* The parser on its own: every text of DateTexts under every clock reading *)

InitDate ==
    /\ expenses = <<>>
    /\ selected_for_deletion = {}
    /\ auth_mode = "none"
    /\ page = "add"
    /\ shown = Idle("none")
    /\ date_input \in DateTexts
    /\ today \in RefDates
    /\ parsed = NotParsed
    /\ custom_categories = {}
    /\ user_id = NoUser
    /\ db = NoDb

ParseDate ==
    /\ ~parsed.done
    /\ parsed' = [done |-> TRUE, value |-> parse_date_input(date_input, today)]
    /\ UNCHANGED <<expenses, selected_for_deletion, auth_mode, page, shown, date_input, today, account>>

NextDate == ParseDate

SpecDate == InitDate /\ [][NextDate]_vars

-----------------------------------------------------------------------------
(* Claims about the date normalizer, checked under SpecDate *)

\* zero-padded YYYY-MM-DD: ten characters, digits around two dashes
IsCanonicalText(t) ==
    /\ Len(t) = 10
    /\ t[5] = "-" /\ t[8] = "-"
    /\ \A i \in {1, 2, 3, 4, 6, 7, 9, 10} : t[i] \in DigitChars

YearOf(t) == DigitsValue(SubSeq(t, 1, 4))
MonthOf(t) == DigitsValue(SubSeq(t, 6, 7))
DayOf(t) == DigitsValue(SubSeq(t, 9, 10))

\* the canonical text of the date (y, m, d)
IsDateText(t, y, m, d) ==
    IsCanonicalText(t) /\ YearOf(t) = y /\ MonthOf(t) = m /\ DayOf(t) = d

Dashes(t) == Cardinality({i \in 1..Len(t) : t[i] = "-"})

\* the text up to its first dash
RECURSIVE FirstPart(_)
FirstPart(t) ==
    IF t = <<>> \/ Head(t) = "-" THEN <<>> ELSE <<Head(t)>> \o FirstPart(Tail(t))

\* no rule of the normalizer takes the trimmed text t
NoRuleMatches(t) ==
    /\ ~(IsDigit(t) /\ Len(t) <= 2)
    /\ \/ Dashes(t) \notin {1, 2}
       \/ Dashes(t) = 2 /\ Len(FirstPart(t)) \notin {0, 1, 2, 4}

\* C8: the normalizer returns an error or a zero-padded YYYY-MM-DD text of a
\* date that exists in the calendar, whatever the rule that produced it; a
\* text that no rule takes returns an error.
C8_ResultIsErrorOrRealDate ==
    parsed.done =>
        /\ \/ parsed.value = None
           \/ /\ IsCanonicalText(parsed.value)
              /\ DateExists(YearOf(parsed.value), MonthOf(parsed.value), DayOf(parsed.value))
        /\ NoRuleMatches(Strip(date_input)) => parsed.value = None

\* the month-day rule has produced a date for "2-29" in a leap year
C8_Witness ==
    /\ parsed.done
    /\ date_input = <<"2", "-", "2", "9">>
    /\ today.year = 2024
    /\ parsed.value = <<"2", "0", "2", "4", "-", "0", "2", "-", "2", "9">>

\* C9: a digit text of at most 2 characters with value D gives the clock's
\* year and month with day D when 1 <= D <= 31 and the month has a day D,
\* and an error otherwise.
C9_DayOnly ==
    (parsed.done /\ IsDigit(date_input) /\ Len(date_input) <= 2) =>
        LET D == DigitsValue(date_input) IN
        IF D >= 1 /\ D <= 31 /\ D <= DaysInMonth(today.year, today.month)
        THEN IsDateText(parsed.value, today.year, today.month, D)
        ELSE parsed.value = None

\* day 4 of the clock's month has been returned zero-padded for the text "4"
C9_Witness ==
    /\ parsed.done
    /\ date_input = <<"4">>
    /\ today = [year |-> 2023, month |-> 4]
    /\ parsed.value = <<"2", "0", "2", "3", "-", "0", "4", "-", "0", "4">>

\* a text "y-m-d" of three digit parts
IsThreeNumbers(t) ==
    /\ Dashes(t) = 2
    /\ \A i \in 1..3 : IsDigit(Split(t)[i])

\* the year a first part stands for: 2000 + y when written with 1 or 2
\* characters, y itself otherwise
WrittenYear(part) ==
    IF Len(part) <= 2 THEN 2000 + DigitsValue(part) ELSE DigitsValue(part)

\* C10 as stated: every "y-m-d" of a real calendar date is returned as that
\* date, zero-padded, whatever the zero-padding of its parts.
C10_AsStated ==
    (parsed.done /\ IsThreeNumbers(date_input)) =>
        LET parts == Split(date_input)
            y == WrittenYear(parts[1])
            m == DigitsValue(parts[2])
            d == DigitsValue(parts[3])
        IN  DateExists(y, m, d) => IsDateText(parsed.value, y, m, d)

\* C10 (amended): every "y-m-d" of a real calendar date whose year part is
\* written with exactly 4 characters, or with 1 or 2 characters (the year
\* 2000 + y), is returned as that date, zero-padded, whatever the padding
\* of month and day and whatever the clock; a canonical text is returned
\* unchanged; a year part of 3 or of 5 and more characters is an error.
C10_RoundTrip ==
    (parsed.done /\ IsThreeNumbers(date_input)) =>
        LET parts == Split(date_input)
            y == WrittenYear(parts[1])
            m == DigitsValue(parts[2])
            d == DigitsValue(parts[3])
        IN  /\ (Len(parts[1]) \in {1, 2, 4} /\ DateExists(y, m, d))
                => IsDateText(parsed.value, y, m, d)
            /\ (IsCanonicalText(date_input) /\ DateExists(y, m, d))
                => parsed.value = date_input
            /\ Len(parts[1]) \notin {1, 2, 4} => parsed.value = None

\* "24-1-4" has been returned as 2024-01-04
C10_Witness ==
    /\ parsed.done
    /\ date_input = <<"2", "4", "-", "1", "-", "4">>
    /\ parsed.value = <<"2", "0", "2", "4", "-", "0", "1", "-", "0", "4">>

\* C11: for a two-part text "M-D" the normalizer returns an error when M is
\* outside 1..12 or D outside 1..31, or when the clock's year has no day D in
\* month M ("02-30" in a leap year and in a common year alike), or when a part
\* is not a number; otherwise it returns the clock's year with month M and
\* day D, zero-padded.
C11_MonthDayRule ==
    (parsed.done /\ Dashes(Strip(date_input)) = 1) =>
        LET parts == Split(Strip(date_input))
            M == DigitsValue(Strip(parts[1]))
            D == DigitsValue(Strip(parts[2]))
        IN  IF /\ IsDigit(Strip(parts[1])) /\ IsDigit(Strip(parts[2]))
               /\ M >= 1 /\ M <= 12 /\ D >= 1 /\ D <= 31
               /\ D <= DaysInMonth(today.year, M)
            THEN IsDateText(parsed.value, today.year, M, D)
            ELSE parsed.value = None

\* "02-30" has been refused in the leap year 2024
C11_Witness ==
    /\ parsed.done
    /\ date_input = <<"0", "2", "-", "3", "0">>
    /\ today = [year |-> 2024, month |-> 2]
    /\ parsed.value = None

-----------------------------------------------------------------------------
(* The remove-duplicates page on its own: every collection of up to MaxScan  *)
(* records, as add and edit can build it, with the selection empty or        *)
(* holding one index left by an earlier visit of the page                    *)
(* (selected_for_deletion is not reset when the collection changes on        *)
(* another page, so the index may be that of any record, or past the end).   *)

Date1 == <<"2", "0", "2", "4", "-", "0", "1", "-", "0", "4">>
Date2 == <<"2", "0", "2", "4", "-", "0", "1", "-", "2", "9">>

\* a record and the records that differ from it in one field
ScanRecords ==
    {[date |-> Date1, category |-> "groceries", amount |-> 1, description |-> "milk"],
     [date |-> Date1, category |-> "groceries", amount |-> 1, description |-> "bread"],
     [date |-> Date1, category |-> "groceries", amount |-> 2, description |-> "milk"],
     [date |-> Date1, category |-> "utilities", amount |-> 1, description |-> "milk"],
     [date |-> Date2, category |-> "groceries", amount |-> 1, description |-> "milk"]}

InitScan ==
    /\ expenses \in UNION {[1..n -> ScanRecords] : n \in 0..MaxScan}
    /\ selected_for_deletion \in {{}} \cup {{i} : i \in 0..(MaxScan - 1)}
    /\ auth_mode = "guest"
    /\ page = "dups"
    /\ shown = Idle("navigate")
    /\ date_input = <<>>
    /\ today = AppToday
    /\ parsed = NotParsed
    /\ custom_categories = {}
    /\ user_id = NoUser
    /\ db = NoDb

NextScan ==
    LET groups == actual_duplicates(expenses) IN
    \/ \E i \in 0..(Len(expenses) - 1) : ToggleCheckbox(groups, i)
    \/ SelectAllDuplicates(groups)
    \/ ClearSelection(groups)
    \/ DeleteSelected(groups)

SpecScan == InitScan /\ [][NextScan]_vars

-----------------------------------------------------------------------------
(* The add page on its own: every collection of up to MaxLen records over   *)
(* both dates, categories, amounts and descriptions, as add and edit can    *)
(* build it, and every value of the form.                                   *)

AddRecords ==
    [date : {Date1, Date2}, category : CategoryChoices, amount : Amounts,
     description : Descriptions]

InitAdd ==
    /\ expenses \in UNION {[1..n -> AddRecords] : n \in 0..MaxLen}
    /\ selected_for_deletion = {}
    /\ auth_mode = "guest"
    /\ page = "add"
    /\ shown = Idle("continue_as_guest")
    /\ date_input = <<>>
    /\ today = AppToday
    /\ parsed = NotParsed
    /\ custom_categories = {}
    /\ user_id = NoUser
    /\ db = NoDb

NextAdd ==
    \/ \E c \in CategoryChoices, a \in Amounts, d \in Descriptions, t \in FormDates :
          AddExpense(c, a, d, t)
    \/ AddAnyway
    \/ CancelAdd

SpecAdd == InitAdd /\ [][NextAdd]_vars

-----------------------------------------------------------------------------
(* A guest session without a database, with the Manage Categories page:     *)
(* expenses are added and edited while categories are added, renamed and    *)
(* removed.                                                                 *)

CategoryPages == {"add", "edit", "categories"}

InitCategories ==
    /\ expenses = <<>>
    /\ selected_for_deletion = {}
    /\ auth_mode = "guest"
    /\ page = "add"
    /\ shown = Idle("continue_as_guest")
    /\ date_input = <<>>
    /\ today = AppToday
    /\ parsed = NotParsed
    /\ custom_categories = {}
    /\ user_id = NoUser
    /\ db = NoDb

NextCategories ==
    \/ \E p \in CategoryPages : Navigate(p)
    \/ \E c \in CategoryChoices \cup custom_categories, a \in AddAmounts,
          d \in SessionDescriptions, t \in FormDates : AddExpense(c, a, d, t)
    \/ \E i \in 0..(Len(expenses) - 1), c \in CategoryChoices \cup custom_categories,
          a \in AddAmounts, d \in SessionDescriptions, t \in FormDates :
          SaveChanges(i, c, a, d, t)
    \/ \E i \in 0..(Len(expenses) - 1) : DeleteExpense(i)
    \/ \E n \in TypedNames : AddCategory(n)
    \/ \E n \in TypedNames : AddCategoryInline(n)
    \/ \E c \in custom_categories, n \in TypedNames : UpdateCategory(c, n)
    \/ \E c \in custom_categories : RemoveCategory(c)

SpecCategories == InitCategories /\ [][NextCategories]_vars

-----------------------------------------------------------------------------
(* Sessions with a database: a new session at the login screen, PIN users   *)
(* created and logged in, every page used.                                  *)

AccountPages == {"add", "edit", "categories"}

\* what is typed in a session with an account: PINs that pass the checks or
\* not, one category name, one date text that parses and one that does not
AccountNames == {<<" ", "F", "o", "o", "d">>}
AccountDates == {<<"4">>, <<"2", "-", "3", "0">>}

InitAccount ==
    /\ expenses = <<>>
    /\ selected_for_deletion = {}
    /\ auth_mode = "none"
    /\ page = "add"
    /\ shown = Idle("none")
    /\ date_input = <<>>
    /\ today = AppToday
    /\ parsed = NotParsed
    /\ custom_categories = {}
    /\ user_id = NoUser
    /\ db = FreshDb

NextAccount ==
    \/ UsePinAccess
    \/ MainMenu
    \/ \E pin \in Pins : PinLogin(pin)
    \/ \E pin \in Pins, confirm \in Pins : CreatePin(pin, confirm)
    \/ Logout
    \/ \E p \in AccountPages : Navigate(p)
    \/ \E c \in {"groceries"} \cup custom_categories, a \in AddAmounts,
          d \in SessionDescriptions, t \in AccountDates : AddExpense(c, a, d, t)
    \/ AddAnyway
    \/ CancelAdd
    \/ \E i \in 0..(Len(expenses) - 1), c \in {"groceries"} \cup custom_categories,
          a \in EditAmounts, d \in SessionDescriptions, t \in AccountDates :
          SaveChanges(i, c, a, d, t)
    \/ \E i \in 0..(Len(expenses) - 1) : DeleteExpense(i)
    \/ \E n \in AccountNames : AddCategory(n)

SpecAccount == InitAccount /\ [][NextAccount]_vars

-----------------------------------------------------------------------------
(* The edit page on its own, on every collection of up to MaxLen records.    *)

\* what is typed in the edit form: the values of a record of the collection,
\* values that differ from it in two and in all four fields, and a date that
\* does not exist
EditForms ==
    {[category |-> "groceries", amount |-> 1, description |-> "milk", text |-> <<"4">>],
     [category |-> "utilities", amount |-> 1, description |-> "bread", text |-> <<"4">>],
     [category |-> "utilities", amount |-> 2, description |-> "bread",
      text |-> <<"2", "4", "-", "1", "-", "2", "9">>],
     [category |-> "utilities", amount |-> 2, description |-> "bread",
      text |-> <<"2", "-", "3", "0">>]}

InitEdit ==
    /\ expenses \in UNION {[1..n -> ScanRecords] : n \in 0..MaxLen}
    /\ selected_for_deletion = {}
    /\ auth_mode = "guest"
    /\ page = "edit"
    /\ shown = Idle("navigate")
    /\ date_input = <<>>
    /\ today = AppToday
    /\ parsed = NotParsed
    /\ custom_categories = {}
    /\ user_id = NoUser
    /\ db = NoDb

NextEdit ==
    \/ \E i \in 0..(Len(expenses) - 1), f \in EditForms :
          SaveChanges(i, f.category, f.amount, f.description, f.text)
    \/ \E i \in 0..(Len(expenses) - 1) : DeleteExpense(i)

SpecEdit == InitEdit /\ [][NextEdit]_vars

-----------------------------------------------------------------------------
(* The Remove Duplicates page used with its buttons alone, from an empty     *)
(* selection, on every collection of up to MaxScan records.                  *)

InitDedupe ==
    /\ expenses \in UNION {[1..n -> ScanRecords] : n \in 0..MaxScan}
    /\ selected_for_deletion = {}
    /\ auth_mode = "guest"
    /\ page = "dups"
    /\ shown = Idle("navigate")
    /\ date_input = <<>>
    /\ today = AppToday
    /\ parsed = NotParsed
    /\ custom_categories = {}
    /\ user_id = NoUser
    /\ db = NoDb

NextDedupe ==
    LET groups == actual_duplicates(expenses) IN
    \/ SelectAllDuplicates(groups)
    \/ ClearSelection(groups)
    \/ DeleteSelected(groups)

SpecDedupe == InitDedupe /\ [][NextDedupe]_vars

-----------------------------------------------------------------------------
(* The Remove Duplicates page and the edit page used in turn: records are    *)
(* ticked on the one, edited or deleted on the other.                        *)

StalePages == {"edit", "dups"}

\* two records with one key
StaleRecords ==
    {[date |-> Date1, category |-> "groceries", amount |-> 1, description |-> "milk"],
     [date |-> Date1, category |-> "groceries", amount |-> 1, description |-> "bread"]}

InitStale ==
    /\ expenses \in UNION {[1..n -> StaleRecords] : n \in 0..MaxScan}
    /\ selected_for_deletion = {}
    /\ auth_mode = "guest"
    /\ page = "dups"
    /\ shown = Idle("navigate")
    /\ date_input = <<>>
    /\ today = AppToday
    /\ parsed = NotParsed
    /\ custom_categories = {}
    /\ user_id = NoUser
    /\ db = NoDb

NextStale ==
    LET groups == actual_duplicates(expenses) IN
    \/ \E p \in StalePages : Navigate(p)
    \/ \E i \in 0..(Len(expenses) - 1), f \in EditForms :
          SaveChanges(i, f.category, f.amount, f.description, f.text)
    \/ \E i \in 0..(Len(expenses) - 1) : DeleteExpense(i)
    \/ \E i \in 0..(Len(expenses) - 1) : ToggleCheckbox(groups, i)
    \/ SelectAllDuplicates(groups)
    \/ ClearSelection(groups)
    \/ DeleteSelected(groups)

SpecStale == InitStale /\ [][NextStale]_vars

-----------------------------------------------------------------------------
(* The access modes: every button of the login, PIN and account screens and  *)
(* of the header, with the add and edit pages behind them and a database.    *)

AuthPages == {"add", "edit"}

\* the date texts typed in the edit form: two that parse and one that does not
AuthDates == {<<"4">>, <<"2", "4", "-", "1", "-", "2", "9">>, <<"2", "-", "3", "0">>}

InitAuth ==
    /\ expenses = <<>>
    /\ selected_for_deletion = {}
    /\ auth_mode = "none"
    /\ page = "add"
    /\ shown = Idle("none")
    /\ date_input = <<>>
    /\ today = AppToday
    /\ parsed = NotParsed
    /\ custom_categories = {}
    /\ user_id = NoUser
    /\ db = FreshDb

NextAuth ==
    \/ ContinueAsGuest
    \/ UsePinAccess
    \/ CreateAccount
    \/ MainMenu
    \/ BackToGuest
    \/ AccountMainMenu
    \/ AccountBackToGuest
    \/ AccountSubmit
    \/ \E pin \in Pins : PinLogin(pin)
    \/ \E pin \in Pins : \E confirm \in {pin, <<"1", "1", "1", "1">>} : CreatePin(pin, confirm)
    \/ Logout
    \/ GuestLogin
    \/ \E p \in AuthPages : Navigate(p)
    \/ \E a \in AddAmounts, d \in SessionDescriptions, t \in AccountDates :
          AddExpense("groceries", a, d, t)
    \/ \E i \in 0..(Len(expenses) - 1), a \in AddAmounts, d \in SessionDescriptions,
          t \in AuthDates : SaveChanges(i, "groceries", a, d, t)

SpecAuth == InitAuth /\ [][NextAuth]_vars

-----------------------------------------------------------------------------
(* Claims about the pages *)

\* the equality key of the latest revision: date, category and amount
SameKey(a, b) == a.date = b.date /\ a.category = b.category /\ a.amount = b.amount

\* list without the records at the positions (from 0) in S, the others in order
RECURSIVE WithoutFrom(_, _, _)
WithoutFrom(list, S, i) ==
    IF list = <<>> THEN <<>>
    ELSE IF i \in S THEN WithoutFrom(Tail(list), S, i + 1)
    ELSE <<Head(list)>> \o WithoutFrom(Tail(list), S, i + 1)

Without(list, S) == WithoutFrom(list, S, 0)

\* C1: Delete Selected with a set S of in-range indices leaves exactly the
\* collection without the records at the positions in S, the remaining
\* records in their original order.
C1_DeleteSelectedRemovesExactlyS ==
    [][(shown'.clicked = "delete_selected"
          /\ selected_for_deletion \subseteq 0..(Len(expenses) - 1))
        => expenses' = Without(expenses, selected_for_deletion)]_vars

\* two records have been deleted and the one that was between them is left
C1_Witness ==
    /\ shown.clicked = "delete_selected"
    /\ shown.count = 2
    /\ expenses = <<[date |-> Date1, category |-> "utilities", amount |-> 1,
                     description |-> "milk"]>>

\* C2: in the pending state, Add Anyway appends the candidate to the
\* collection, once.
C2_ConfirmAppendsCandidate ==
    [][(shown.pending /\ shown'.clicked = "add_anyway")
        => expenses' = Append(expenses, shown.expense)]_vars

\* C3: when the duplicate check finds a match nothing is inserted in that
\* step; while the decision is pending no step but a confirm or a new add
\* attempt changes the collection (Cancel leaves it as it was), and a new add
\* attempt inserts no record with the pending candidate's key.
C3_NoInsertWithoutConfirm ==
    [][/\ shown'.pending => expenses' = expenses
       /\ (shown.pending /\ shown'.clicked \notin {"add_anyway", "add_expense"})
             => expenses' = expenses
       /\ (shown.pending /\ shown'.clicked = "add_expense" /\ expenses' # expenses)
             => /\ expenses' = Append(expenses, shown'.expense)
                /\ ~SameKey(shown'.expense, shown.expense)]_vars

\* Cancel has been clicked on a pending duplicate decision
C3_Witness ==
    /\ shown.clicked = "cancel_add"
    /\ expenses # <<>>

\* C4: the add flow reports an existing record as a match exactly when its
\* date, category and amount equal the candidate's, whatever the descriptions;
\* with no match the candidate is appended at the end in the same step.
C4_DuplicateCheckByKey ==
    [][(shown'.clicked = "add_expense" /\ shown'.error = "")
        => /\ \A i \in 1..Len(expenses) :
                  (\E k \in 1..Len(shown'.duplicates) : shown'.duplicates[k] = expenses[i])
                      <=> SameKey(expenses[i], shown'.expense)
           /\ Len(shown'.duplicates) =
                  Cardinality({i \in 1..Len(expenses) : SameKey(expenses[i], shown'.expense)})
           /\ shown'.pending <=> shown'.duplicates # <<>>
           /\ shown'.duplicates = <<>> => expenses' = Append(expenses, shown'.expense)]_vars

\* a record that differs from the candidate in its description only has been
\* reported as a duplicate
C4_Witness ==
    /\ shown.clicked = "add_expense"
    /\ shown.pending
    /\ shown.duplicates # <<>>
    /\ shown.duplicates[1].description # shown.expense.description

\* the scan has run: the page is drawn and the collection is not empty
ScanRan == InApp /\ page = "dups" /\ expenses # <<>>

\* the record at position i (from 0) shares its key with another record
SharesKey(exps, i) ==
    \E j \in 0..(Len(exps) - 1) : j # i /\ SameKey(exps[j + 1], exps[i + 1])

\* the groups that have a member with original index i
GroupsWith(groups, i) ==
    {g \in 1..Len(groups) :
        \E k \in 1..Len(groups[g].members) : groups[g].members[k][1] = i}

\* C5: the scan reports exactly the keys shared by 2 or more records: a record
\* whose key is shared is a member of exactly one group, that of its key, once;
\* a record with a unique key is in no group; no group has fewer than 2 members.
C5_GroupsAreTheSharedKeys ==
    ScanRan =>
        LET groups == actual_duplicates(expenses) IN
        /\ \A i \in 0..(Len(expenses) - 1) :
              IF SharesKey(expenses, i)
              THEN /\ Cardinality(GroupsWith(groups, i)) = 1
                   /\ \A g \in GroupsWith(groups, i) :
                         /\ groups[g].key = <<expenses[i + 1].date, expenses[i + 1].category,
                                              expenses[i + 1].amount>>
                         /\ Cardinality({k \in 1..Len(groups[g].members) :
                                            groups[g].members[k][1] = i}) = 1
              ELSE GroupsWith(groups, i) = {}
        /\ \A g \in 1..Len(groups) : Len(groups[g].members) >= 2
        /\ \A g, h \in 1..Len(groups) : groups[g].key = groups[h].key => g = h

\* the scan of [A, B, A'] has reported one group, of the indices 0 and 2
C5_Witness ==
    /\ ScanRan
    /\ Len(expenses) = 3
    /\ ~SharesKey(expenses, 1)
    /\ Len(actual_duplicates(expenses)) = 1
    /\ MemberIndices(actual_duplicates(expenses)) = {0, 2}

\* C6: every member of a reported group is paired with its position in the
\* scanned collection, the indices of a group are strictly ascending, and no
\* index is in two groups.
C6_IndicesAreScanPositions ==
    ScanRan =>
        LET groups == actual_duplicates(expenses) IN
        /\ \A g \in 1..Len(groups) : \A k \in 1..Len(groups[g].members) :
              /\ groups[g].members[k][1] \in 0..(Len(expenses) - 1)
              /\ expenses[groups[g].members[k][1] + 1] = groups[g].members[k][2]
        /\ \A g \in 1..Len(groups) : \A k \in 1..(Len(groups[g].members) - 1) :
              groups[g].members[k][1] < groups[g].members[k + 1][1]
        /\ \A i \in 0..(Len(expenses) - 1) : Cardinality(GroupsWith(groups, i)) <= 1

\* the scan has reported two groups whose indices interleave
C6_Witness ==
    /\ ScanRan
    /\ Len(actual_duplicates(expenses)) = 2
    /\ actual_duplicates(expenses)[1].members[2][1] = 2
    /\ actual_duplicates(expenses)[2].members[1][1] = 1

\* the members of the groups but the first of each, from the collection itself
NonFirstOfKey(exps) ==
    {i \in 0..(Len(exps) - 1) : \E j \in 0..(i - 1) : SameKey(exps[j + 1], exps[i + 1])}

\* C7: after Select All Duplicates the selection is exactly the non-first
\* members of every group, whatever was selected before.
C7_SelectAllIsExactlyNonFirst ==
    [][shown'.clicked = "select_all"
        => selected_for_deletion' = NonFirstOfKey(expenses)]_vars

-----------------------------------------------------------------------------
(* Claims about sessions with an account, checked under SpecAccount *)

DateValue(date) == IF Len(date) = 3 THEN date ELSE ToDate(date)

\* the record is one of the rows stored for user uid
StoredFor(store, uid, record) ==
    \E k \in 1..Len(store.expenses) :
        /\ store.expenses[k].user_id = uid
        /\ store.expenses[k].amount = record.amount
        /\ store.expenses[k].description = record.description
        /\ store.expenses[k].category = record.category
        /\ store.expenses[k].date = DateValue(record.date)

TimesInSession(record) ==
    Cardinality({i \in 1..Len(expenses) :
                    /\ expenses[i].amount = record.amount
                    /\ expenses[i].description = record.description
                    /\ expenses[i].category = record.category
                    /\ DateValue(expenses[i].date) = DateValue(record.date)})

\* how many times it is among the rows stored for user uid
TimesStored(store, uid, record) ==
    Cardinality({k \in 1..Len(store.expenses) :
                    /\ store.expenses[k].user_id = uid
                    /\ store.expenses[k].amount = record.amount
                    /\ store.expenses[k].description = record.description
                    /\ store.expenses[k].category = record.category
                    /\ store.expenses[k].date = DateValue(record.date)})

\* C19: for an authenticated user with a database the records stored for the
\* user are, as a multiset, the records of the session collection.
C19_StoreMirrorsSession ==
    (auth_mode = "authenticated" /\ user_id # NoUser /\ db.engine) =>
        /\ \A i \in 1..Len(expenses) :
              TimesStored(db, user_id, expenses[i]) = TimesInSession(expenses[i])
        /\ Len(RowsOf(db, user_id)) = Len(expenses)

-----------------------------------------------------------------------------
(* Claims about the equality of records *)

\* the records of exps (positions from 0) at i and j sit in one group of the scan
InOneGroup(exps, i, j) ==
    LET groups == actual_duplicates(exps) IN
    \E g \in 1..Len(groups) :
        /\ \E k \in 1..Len(groups[g].members) : groups[g].members[k][1] = i
        /\ \E k \in 1..Len(groups[g].members) : groups[g].members[k][1] = j

\* C13 as the spec states it, for the strategy WITH_DESCRIPTION: a candidate
\* that equals existing records in date, category and amount but differs from
\* each of them in its description is reported as unique and is inserted. The
\* program has one check and no strategy to choose, so the strategy is
\* supported only if that check behaves so.
C13_AsStated ==
    [][(/\ shown'.clicked = "add_expense"
        /\ shown'.error = ""
        /\ \A i \in 1..Len(expenses) :
               SameKey(expenses[i], shown'.expense)
                   => expenses[i].description # shown'.expense.description)
        => /\ ~shown'.pending
           /\ expenses' = Append(expenses, shown'.expense)]_vars

\* C13, amended: the duplicate check and the duplicate scan implement the one
\* strategy WITHOUT_DESCRIPTION. A candidate that equals an existing record in
\* date, category and amount but differs in description is reported as a
\* duplicate of it and is not inserted, and two records of the collection that
\* differ in description only fall in one group of the scan.
C13_DescriptionIgnored ==
    [][(shown'.clicked = "add_expense" /\ shown'.error = "")
        => /\ \A i \in 1..Len(expenses) :
                  (/\ SameKey(expenses[i], shown'.expense)
                   /\ expenses[i].description # shown'.expense.description)
                      => /\ shown'.pending
                         /\ expenses' = expenses
                         /\ \E k \in 1..Len(shown'.duplicates) :
                                shown'.duplicates[k] = expenses[i]
           /\ \A i, j \in 0..(Len(expenses') - 1) :
                  (/\ i # j
                   /\ SameKey(expenses'[i + 1], expenses'[j + 1])
                   /\ expenses'[i + 1].description # expenses'[j + 1].description)
                      => InOneGroup(expenses', i, j)]_vars

\* the check has reported two matches, one of them with another description
\* than the candidate, in a collection that holds two records differing in
\* description only
C13_Witness ==
    /\ shown.clicked = "add_expense"
    /\ shown.error = ""
    /\ shown.pending
    /\ Len(shown.duplicates) = 2
    /\ \E k \in 1..Len(shown.duplicates) :
           shown.duplicates[k].description # shown.expense.description
    /\ \E i, j \in 0..(Len(expenses) - 1) :
           /\ i # j
           /\ SameKey(expenses[i + 1], expenses[j + 1])
           /\ expenses[i + 1].description # expenses[j + 1].description

-----------------------------------------------------------------------------
(* Claims about categories and amounts *)

\* exps with the category old replaced by new, every other field and record kept
Renamed(exps, old, new) ==
    [i \in 1..Len(exps) |->
        IF exps[i].category = old
        THEN [amount |-> exps[i].amount, description |-> exps[i].description,
              category |-> new, date |-> exps[i].date]
        ELSE exps[i]]

\* C14: "Update" on the categories page, for a custom category old and a typed
\* name that is not empty. When the typed name, trimmed and lower-cased, is a
\* built-in or a custom category the rename is rejected with an error and
\* nothing changes. Otherwise the new name replaces old in the custom set, and
\* the category of exactly the records that had old becomes the new name, every
\* other record and field unchanged.
C14_RenameCascades ==
    [][\A old \in custom_categories : \A typed \in TypedNames \ {<<>>} :
          UpdateCategory(old, typed)
              => LET new == Name(Lower(Strip(typed))) IN
                 IF new \in categories \cup custom_categories
                 THEN /\ shown'.error = "exists"
                      /\ custom_categories' = custom_categories
                      /\ expenses' = expenses
                 ELSE /\ shown'.error = ""
                      /\ custom_categories' = (custom_categories \ {old}) \cup {new}
                      /\ expenses' = Renamed(expenses, old, new)]_vars

\* after an "Update": "pets" is a custom category and "food" is not, a record
\* has the category "pets" and another record has a built-in one
C14_Witness ==
    /\ shown.clicked = "update_cat"
    /\ shown.error = ""
    /\ "pets" \in custom_categories
    /\ "food" \notin custom_categories
    /\ \E i, j \in 1..Len(expenses) :
           /\ expenses[i].category = "pets"
           /\ expenses[j].category \in categories

\* C15: the four built-in categories are in the category set in every state,
\* and no custom category has the name of a built-in one.
C15_BuiltInsStay ==
    /\ {"groceries", "transportation", "entertainment", "utilities"} \subseteq get_all_categories
    /\ custom_categories \cap {"groceries", "transportation", "entertainment", "utilities"} = {}

\* with no custom category yet, a new category was refused because its name
\* exists: the name typed is that of a built-in category
C15_Witness ==
    /\ shown.clicked \in {"add_new_cat", "add_cat_btn"}
    /\ shown.error = "exists"
    /\ custom_categories = {}

\* C16: the amount of every record of the collection is greater than 0.
C16_AmountsArePositive ==
    \A i \in 1..Len(expenses) : expenses[i].amount > 0

\* C17: the category of every record of the collection is in the current
\* category set.
C17_CategoriesAreKnown ==
    \A i \in 1..Len(expenses) : expenses[i].category \in get_all_categories

-----------------------------------------------------------------------------
(* Claims about the deletion of selected records *)

\* C20: "Delete Selected" with a selection that holds an index outside
\* 0..len-1 ends in an IndexError and leaves the collection as it was: no
\* record of the selection is removed, the valid indices included.
C20_DeleteSelectedFailsFast ==
    [][(/\ shown'.clicked = "delete_selected"
        /\ \E i \in selected_for_deletion : i < 0 \/ i >= Len(expenses))
        => /\ shown'.error = "IndexError"
           /\ expenses' = expenses]_vars

\* "Delete Selected" has failed on a selection that holds an index of the
\* collection next to one past its end
C20_Witness ==
    /\ shown.clicked = "delete_selected"
    /\ shown.error = "IndexError"
    /\ \E i, j \in selected_for_deletion : i < Len(expenses) /\ j >= Len(expenses)

-----------------------------------------------------------------------------
(* Claims about the edit page *)

\* C23: "Save Changes" for the record at index i with a date that is accepted
\* puts the four values of the form in the record at i, the date in its
\* canonical form, and leaves the length of the collection and every other
\* record as they were; "Delete Expense" for index i removes the record at i
\* and keeps the others in their order.
C23_EditTouchesOneRecord ==
    [][/\ \A i \in 0..(Len(expenses) - 1), f \in EditForms :
             (/\ SaveChanges(i, f.category, f.amount, f.description, f.text)
              /\ shown'.error = "")
                 => /\ Len(expenses') = Len(expenses)
                    /\ \A j \in 1..Len(expenses) : j # i + 1 => expenses'[j] = expenses[j]
                    /\ expenses'[i + 1].category = f.category
                    /\ expenses'[i + 1].amount = f.amount
                    /\ expenses'[i + 1].description = f.description
                    /\ IsCanonicalText(expenses'[i + 1].date)
                    /\ expenses'[i + 1].date = FormParse[today][f.text]
                    /\ DOMAIN expenses'[i + 1] = {"amount", "description", "category", "date"}
       /\ \A i \in 0..(Len(expenses) - 1) :
             DeleteExpense(i)
                 => /\ Len(expenses') = Len(expenses) - 1
                    /\ \A j \in 1..i : expenses'[j] = expenses[j]
                    /\ \A j \in (i + 1)..Len(expenses') : expenses'[j] = expenses[j + 1]]_vars

\* a record of a collection of two has been saved with values that the other
\* record does not have in any field
C23_Witness ==
    /\ shown.clicked = "save_changes"
    /\ shown.error = ""
    /\ Len(expenses) = 2
    /\ \E i, j \in 1..2 :
           /\ expenses[i].category # expenses[j].category
           /\ expenses[i].amount # expenses[j].amount
           /\ expenses[i].description # expenses[j].description
           /\ expenses[i].date # expenses[j].date

-----------------------------------------------------------------------------
(* Claims about Select All Duplicates followed by Delete Selected *)

\* no two records of exps have the same key
NoSharedKey(exps) ==
    \A i, j \in 1..Len(exps) : SameKey(exps[i], exps[j]) => i = j

\* C22: from an empty selection, Select All Duplicates selects the members of
\* every group but its earliest and removes nothing; Delete Selected on that
\* selection then leaves the collection without exactly those records: no key
\* is shared any more, every key that was present is present once, the earliest
\* record of each group and the records with a unique key are kept in their
\* order. The selection is empty afterwards and a new scan finds no group, so
\* the two buttons have nothing left to change.
C22_SelectAllThenDelete ==
    [][/\ (shown'.clicked = "select_all" /\ selected_for_deletion = {})
           => /\ selected_for_deletion' = NonFirstOfKey(expenses)
              /\ expenses' = expenses
       /\ (/\ shown.clicked = "select_all"
           /\ selected_for_deletion = NonFirstOfKey(expenses)
           /\ shown'.clicked = "delete_selected")
           => /\ shown'.error = ""
              /\ expenses' = Without(expenses, NonFirstOfKey(expenses))
              /\ NoSharedKey(expenses')
              /\ \A i \in 1..Len(expenses) :
                     \E j \in 1..Len(expenses') :
                        /\ SameKey(expenses[i], expenses'[j])
                        /\ (\A h \in 1..(i - 1) : ~SameKey(expenses[h], expenses[i]))
                               => expenses'[j] = expenses[i]
              /\ actual_duplicates(expenses') = <<>>
              /\ NonFirstOfKey(expenses') = {}
              /\ selected_for_deletion' = {}]_vars

\* two later members of groups have been deleted after Select All, and two
\* records with different keys are left
C22_Witness ==
    /\ shown.clicked = "delete_selected"
    /\ shown.error = ""
    /\ shown.count = 2
    /\ Len(expenses) = 2
    /\ selected_for_deletion = {}

-----------------------------------------------------------------------------
(* Claims about the selection across pages *)

\* C21: in every state where Delete Selected can be clicked (the groups are
\* drawn and the selection is not empty) every selected index is in range and
\* is the index of a record that shares its key with another record of the
\* current collection.
C21_SelectionIsFromCurrentScan ==
    (/\ DuplicatesShown(actual_duplicates(expenses))
     /\ selected_for_deletion # {})
        => \A i \in selected_for_deletion :
               /\ i \in 0..(Len(expenses) - 1)
               /\ SharesKey(expenses, i)

-----------------------------------------------------------------------------
(* Claims about the access modes *)

\* the buttons and widgets of the pages behind the login screens
PageButtons ==
    {"navigate", "add_expense", "add_anyway", "cancel_add", "save_changes", "delete_expense",
     "checkbox", "select_all", "clear_selection", "delete_selected", "add_new_cat",
     "add_cat_btn", "update_cat", "remove_btn", "logout", "guest_login"}

\* C25: auth_mode is one of none, guest, pin_login, account_login and
\* authenticated; in the mode authenticated user_id is set, to a user of the
\* store, and in the mode guest it is unset; the mode authenticated is entered
\* only from the PIN screen by a login or a PIN creation that succeeded; and a
\* button of the pages is only clicked in the modes guest and authenticated.
C25_AuthStateMachine ==
    /\ [](/\ auth_mode \in {"none", "guest", "pin_login", "account_login", "authenticated"}
          /\ auth_mode = "authenticated"
                 => /\ user_id # NoUser
                    /\ \E k \in 1..Len(db.users) : db.users[k].id = user_id
          /\ auth_mode = "guest" => user_id = NoUser)
    /\ [][/\ (auth_mode' = "authenticated" /\ auth_mode # "authenticated")
               => /\ auth_mode = "pin_login"
                  /\ shown'.clicked \in {"pin_login", "create_pin"}
                  /\ shown'.error = ""
          /\ shown'.clicked \in PageButtons
               => auth_mode \in {"guest", "authenticated"}]_vars

\* a login with the PIN of one of two users of the store has succeeded
C25_Witness ==
    /\ shown.clicked = "pin_login"
    /\ shown.error = ""
    /\ auth_mode = "authenticated"
    /\ user_id # NoUser
    /\ Len(db.users) = 2

\* what parse_date_input and the strict parse make of each text typed
ParsedText == [t \in AuthDates \cup AccountDates |-> ParseOrFallback(t, AppToday)]

\* C24: an add or an edit whose date text is rejected by parse_date_input and
\* by the strict parse leaves the collection, the custom categories, the store
\* and the mode as they were; and an add or an edit with a date text that
\* parses is not refused in any state, the state right after such an error
\* included: the add inserts the record or reports its duplicates, the edit
\* writes the record.
C24_DateErrorChangesNothing ==
    [][/\ (shown'.clicked \in {"add_expense", "save_changes"} /\ shown'.error = "date")
           => /\ expenses' = expenses
              /\ custom_categories' = custom_categories
              /\ db' = db
              /\ auth_mode' = auth_mode
              /\ user_id' = user_id
       /\ \A a \in AddAmounts, d \in SessionDescriptions, t \in AccountDates :
             (/\ ParsedText[t] # None
              /\ AddExpense("groceries", a, d, t))
                 => /\ shown'.error = ""
                    /\ shown'.expense.date = ParsedText[t]
                    /\ \/ shown'.pending /\ expenses' = expenses
                       \/ expenses' = Append(expenses, shown'.expense)
       /\ \A i \in 0..(Len(expenses) - 1), a \in AddAmounts, d \in SessionDescriptions,
             t \in AuthDates :
             (/\ ParsedText[t] # None
              /\ SaveChanges(i, "groceries", a, d, t))
                 => /\ shown'.error = ""
                    /\ expenses'[i + 1].date = ParsedText[t]]_vars

\* in a session with an account that has a stored record, a date text has
\* just been rejected
C24_Witness ==
    /\ shown.clicked \in {"add_expense", "save_changes"}
    /\ shown.error = "date"
    /\ auth_mode = "authenticated"
    /\ expenses # <<>>
    /\ db.expenses # <<>>

-----------------------------------------------------------------------------
(* Claims about the change of user in one browser session *)

\* the record is in the session collection exps
InSession(exps, record) == \E i \in 1..Len(exps) : exps[i] = record

\* how many rows the store has for user uid
RowsStored(store, uid) ==
    Cardinality({k \in 1..Len(store.expenses) : store.expenses[k].user_id = uid})

====
